---- MODULE Spec2Model ----
(***************************************************************************)
(* A model of the storage core of ton-labs-node-storage:                   *)
(*   - the RocksDb key-value collection, its snapshots and transactions    *)
(*     (src/src/db/rocksdb.rs),                                            *)
(*   - the cell codec and the cell store on top of it (src/src/cell_db.rs),*)
(*   - the block-metadata flag tests (src/src/archives/mod.rs).            *)
(*                                                                         *)
(* Keys are one-byte keys, values are byte strings (sequences of 0..255).  *)
(* The backend (rocksdb) is modelled by its contract: a point write or a   *)
(* write batch is applied atomically or fails and applies nothing, a       *)
(* snapshot is the contents at the moment it is taken, iteration is in     *)
(* ascending key order.  Backend read errors are not modelled.             *)
(*                                                                         *)
(* The calls that change state are actions; `last` holds the last one and  *)
(* what it returned.  The calls that only read (get, contains, for_each,   *)
(* get_cell, len, is_empty, is_flag) are operators on the state: what the  *)
(* call returns when made in that state.                                   *)
(***************************************************************************)
EXTENDS Integers, Sequences, FiniteSets, TLC

----------------------------------------------------------------------------
(* Bounds of the model *)

\* operations pending in the batches of the transactions alive, all together
MaxStaged == 2

----------------------------------------------------------------------------
(* Results: Ok(val), Err(tag, val), or a panic (a failed assert!) *)

Ok(v) == [tag |-> "Ok", val |-> v]
Err(t, v) == [tag |-> t, val |-> v]
Unit == <<>>
Panic == [tag |-> "Panic", val |-> Unit]
DbIsDropped == [tag |-> "DbIsDropped", val |-> Unit]
HasActiveTransactions == [tag |-> "HasActiveTransactions", val |-> Unit]
BackendError == [tag |-> "BackendError", val |-> Unit]

\* the characters 0-9a-f, as bytes
HexDigits == <<48, 49, 50, 51, 52, 53, 54, 55,
               56, 57, 97, 98, 99, 100, 101, 102>>
\* hex::encode of a one-byte key: the bytes of the string
HexEncode(k) == <<HexDigits[(k \div 16) + 1], HexDigits[(k % 16) + 1]>>
KeyNotFound(k) == [tag |-> "KeyNotFound", val |-> HexEncode(k)]

----------------------------------------------------------------------------
(* The cell codec: src/src/cell_db.rs *)

\* bytes of a UInt256 (read_u256, repr_hash().as_slice())
HashLen == 32
\* assert!(references_count < 5)
MaxRefsExcl == 5

Hash(b) == [i \in 1..HashLen |-> b]

\* CellData::serialize: a self-delimiting blob, here a length byte and the payload
CellDataSerialize(d) == <<Len(d)>> \o d

\* CellData::deserialize from a reader: the cell data and the bytes left, or an error
CellDataDeserialize(bytes) ==
    IF Len(bytes) = 0 \/ Len(bytes) < 1 + bytes[1]
    THEN Err("IoError", Unit)
    ELSE Ok([cell_data |-> SubSeq(bytes, 2, 1 + bytes[1]),
             rest |-> SubSeq(bytes, 2 + bytes[1], Len(bytes))])

RECURSIVE Concat(_)
Concat(ss) == IF ss = <<>> THEN <<>> ELSE Head(ss) \o Concat(Tail(ss))

\* a Cell: its cell data and the repr_hash of each child, in reference order
Cell(d, hs) == [cell_data |-> d, refs |-> hs]

\* the reference count written before the cell data
serialize_cell_swapped(cell) ==
    LET references_count == Len(cell.refs) % 256
    IN IF ~(references_count < MaxRefsExcl) THEN Panic
       ELSE Ok(<<references_count>> \o CellDataSerialize(cell.cell_data)
               \o Concat(cell.refs))

serialize_cell(cell) ==
    LET references_count == Len(cell.refs) % 256
    IN IF ~(references_count < MaxRefsExcl) THEN Panic
       ELSE LET data == CellDataSerialize(cell.cell_data)
                        \o <<references_count>>
                        \o Concat([i \in 1..references_count |-> cell.refs[i]])
            IN IF ~(Len(data) > 0) THEN Panic ELSE Ok(data)

\* Reference::NeedToLoad(hash)
NeedToLoad(h) == [state |-> "NeedToLoad", hash |-> h]

RECURSIVE ReadRefs(_, _, _)
\* the loop of deserialize_cell: n more read_u256 from the reader
ReadRefs(rest, n, acc) ==
    IF n = 0 THEN Ok(acc)
    ELSE IF Len(rest) < HashLen THEN Err("IoError", Unit)
    ELSE ReadRefs(SubSeq(rest, HashLen + 1, Len(rest)), n - 1,
                  Append(acc, NeedToLoad(SubSeq(rest, 1, HashLen))))

deserialize_cell(data) ==
    IF ~(Len(data) > 0) THEN Panic
    ELSE LET cd == CellDataDeserialize(data)
         IN IF cd.tag # "Ok" THEN cd
            ELSE IF Len(cd.val.rest) = 0 THEN Err("IoError", Unit)
            ELSE LET references_count == cd.val.rest[1]
                     refs == ReadRefs(Tail(cd.val.rest), references_count, <<>>)
                 IN IF refs.tag # "Ok" THEN refs
                    ELSE Ok([cell_data |-> cd.val.cell_data,
                             references |-> refs.val])

----------------------------------------------------------------------------
(* State *)

VARIABLES
    db,     \* RocksDb.db: the Arc<Option<DB>> the collection holds
    disk,   \* the contents of the DB at RocksDb.path: present key -> value
    txs,    \* the RocksDbTransaction handles alive: id -> [db, batch]
    snaps,  \* the RocksDbSnapshot handles alive: id -> contents seen
    block_meta, \* a BlockMeta: its atomic flags word
    bits_set,   \* history: the flag bits set on block_meta so far
    threads,    \* the threads staging into one transaction handle, and its Mutex
    last    \* the last call made and what it returned

vars == <<db, disk, txs, snaps, block_meta, bits_set, threads, last>>
storeVars == <<db, disk, txs, snaps>>
metaVars == <<block_meta, bits_set, threads>>

\* one-byte keys (DbKey::key), in the backend's iteration order
Keys == {1, 2}

EmptyMap == [x \in {} |-> Unit]
MapPut(m, k, v) == [x \in DOMAIN m \cup {k} |-> IF x = k THEN v ELSE m[x]]
MapDelete(m, k) == [x \in DOMAIN m \ {k} |-> m[x]]

\* the threads that share a transaction handle
ThreadIds == {1, 2}

\* no thread is in a call and the Mutex of the batch is free
ThreadsInit ==
    [mutex |-> 0,
     pc |-> [i \in ThreadIds |-> "idle"],
     operation |-> [i \in ThreadIds |-> Unit],
     batch |-> [i \in ThreadIds |-> Unit],
     staged |-> <<>>]

\* the collection as a call finds it (&self)
Self == [db |-> db, disk |-> disk]

\* a call: its name, arguments and result, and (history) the state it was made in
Call(op, args, res) ==
    [op |-> op, args |-> args, res |-> res,
     pre |-> [db |-> db, disk |-> disk, txs |-> txs, snaps |-> snaps,
              block_meta |-> block_meta]]

----------------------------------------------------------------------------
(* RocksDb: KvcReadable (src/src/db/rocksdb.rs) *)

\* RocksDb::db(): the DB, or DbIsDropped
RocksDb_db(self) == IF self.db.some THEN Ok(self.disk) ELSE DbIsDropped

\* get_pinned / Snapshot::get on some contents, then ok_or(KeyNotFound(hex))
view_get(view, k) == IF k \in DOMAIN view THEN Ok(view[k]) ELSE KeyNotFound(k)
view_contains(view, k) == Ok(k \in DOMAIN view)

\* the keys of a view from key `from` on, ascending (IteratorMode::Start)
RECURSIVE KeysFrom(_, _)
KeysFrom(view, from) ==
    LET ks == {k \in DOMAIN view : k >= from}
    IN IF ks = {} THEN <<>>
       ELSE LET k == CHOOSE x \in ks : \A y \in ks : x <= y
            IN <<k>> \o KeysFrom(view, k + 1)

\* a loop that goes on after the predicate answered false
RECURSIVE for_each_loop_no_stop(_, _, _, _)
for_each_loop_no_stop(view, ks, predicate, visited) ==
    IF ks = <<>> THEN [visited |-> visited, ret |-> Ok(TRUE)]
    ELSE LET k == Head(ks)
             seen == Append(visited, <<k, view[k]>>)
         IN IF predicate[k] = "err"
            THEN [visited |-> seen, ret |-> Err("PredicateError", Unit)]
            ELSE for_each_loop_no_stop(view, Tail(ks), predicate, seen)

\* the for loop of for_each over the entries left; the predicate answers
\* "true", "false" or "err" per key.  Result: the entries visited and the return.
RECURSIVE for_each_loop(_, _, _, _)
for_each_loop(view, ks, predicate, visited) ==
    IF ks = <<>> THEN [visited |-> visited, ret |-> Ok(TRUE)]
    ELSE LET k == Head(ks)
             seen == Append(visited, <<k, view[k]>>)
         IN IF predicate[k] = "err"
            THEN [visited |-> seen, ret |-> Err("PredicateError", Unit)]
            ELSE IF predicate[k] = "false"
            THEN [visited |-> seen, ret |-> Ok(FALSE)]
            ELSE for_each_loop(view, Tail(ks), predicate, seen)

view_for_each(view, predicate) ==
    for_each_loop(view, KeysFrom(view, 0), predicate, <<>>)

RocksDb_get(self, k) ==
    IF RocksDb_db(self).tag # "Ok" THEN RocksDb_db(self)
    ELSE view_get(RocksDb_db(self).val, k)

RocksDb_contains(self, k) ==
    IF RocksDb_db(self).tag # "Ok" THEN RocksDb_db(self)
    ELSE view_contains(RocksDb_db(self).val, k)

RocksDb_for_each(self, predicate) ==
    IF RocksDb_db(self).tag # "Ok" THEN [visited |-> <<>>, ret |-> RocksDb_db(self)]
    ELSE view_for_each(RocksDb_db(self).val, predicate)

----------------------------------------------------------------------------
(* RocksDb: KvcWriteable *)

\* a put that the snapshots alive see too
Put_seen_by_snapshots(k, v) ==
    /\ IF ~db.some
       THEN /\ last' = Call("put", <<k, v>>, DbIsDropped)
            /\ UNCHANGED <<disk, snaps>>
       ELSE \/ /\ disk' = MapPut(disk, k, v)
               /\ snaps' = [s \in DOMAIN snaps |-> MapPut(snaps[s], k, v)]
               /\ last' = Call("put", <<k, v>>, Ok(Unit))
            \/ /\ UNCHANGED <<disk, snaps>>
               /\ last' = Call("put", <<k, v>>, BackendError)
    /\ UNCHANGED <<db, txs, block_meta, bits_set, threads>>

\* a put that answers Ok and leaves the write for later
Put_not_applied(k, v) ==
    /\ last' = Call("put", <<k, v>>, IF db.some THEN Ok(Unit) ELSE DbIsDropped)
    /\ UNCHANGED <<db, disk, txs, snaps, block_meta, bits_set, threads>>

\* put: db()?, then the backend's put, which applies or fails
Put(k, v) ==
    /\ IF ~db.some
       THEN /\ last' = Call("put", <<k, v>>, DbIsDropped)
            /\ UNCHANGED disk
       ELSE \/ /\ disk' = MapPut(disk, k, v)
               /\ last' = Call("put", <<k, v>>, Ok(Unit))
            \/ /\ UNCHANGED disk
               /\ last' = Call("put", <<k, v>>, BackendError)
    /\ UNCHANGED <<db, txs, snaps, block_meta, bits_set, threads>>

Delete(k) ==
    /\ IF ~db.some
       THEN /\ last' = Call("delete", <<k>>, DbIsDropped)
            /\ UNCHANGED disk
       ELSE \/ /\ disk' = MapDelete(disk, k)
               /\ last' = Call("delete", <<k>>, Ok(Unit))
            \/ /\ UNCHANGED disk
               /\ last' = Call("delete", <<k>>, BackendError)
    /\ UNCHANGED <<db, txs, snaps, block_meta, bits_set, threads>>

----------------------------------------------------------------------------
(* RocksDbSnapshot: KvcSnapshotable::snapshot and the snapshot's KvcReadable *)

\* snapshot(): db()?.snapshot(), a handle borrowing the collection
Snapshot(s) ==
    /\ s \notin DOMAIN snaps
    /\ IF ~db.some
       THEN /\ last' = Call("snapshot", <<s>>, DbIsDropped)
            /\ UNCHANGED snaps
       ELSE /\ snaps' = MapPut(snaps, s, disk)
            /\ last' = Call("snapshot", <<s>>, Ok(Unit))
    /\ UNCHANGED <<db, disk, txs, block_meta, bits_set, threads>>

\* the Arc<dyn KvcReadable> is dropped
SnapshotDrop(s) ==
    /\ s \in DOMAIN snaps
    /\ snaps' = MapDelete(snaps, s)
    /\ last' = Call("snapshot_drop", <<s>>, Ok(Unit))
    /\ UNCHANGED <<db, disk, txs, block_meta, bits_set, threads>>

\* the KvcReadable of a snapshot (self.0: the contents it holds)
RocksDbSnapshot_get(snapshot, k) == view_get(snapshot, k)
RocksDbSnapshot_contains(snapshot, k) == view_contains(snapshot, k)
RocksDbSnapshot_for_each(snapshot, predicate) == view_for_each(snapshot, predicate)

----------------------------------------------------------------------------
(* RocksDbTransaction: begin_transaction, put/delete/clear, commit, len *)

BatchPut(k, v) == [op |-> "put", key |-> k, value |-> v]
BatchDelete(k) == [op |-> "delete", key |-> k, value |-> Unit]

\* DB::write(batch): the operations of the batch, in staging order
RECURSIVE WriteBatch(_, _)
WriteBatch(view, batch) ==
    IF batch = <<>> THEN view
    ELSE WriteBatch(IF Head(batch).op = "put"
                    THEN MapPut(view, Head(batch).key, Head(batch).value)
                    ELSE MapDelete(view, Head(batch).key),
                    Tail(batch))

RECURSIVE SumLen(_, _)
SumLen(m, ids) ==
    IF ids = {} THEN 0
    ELSE LET t == CHOOSE x \in ids : TRUE
         IN Len(m[t].batch) + SumLen(m, ids \ {t})

\* the operations pending in all the batches
Staged == SumLen(txs, DOMAIN txs)

\* a handle that refers to the DB without owning a share of the Arc
BeginTransaction_uncounted(t) ==
    /\ t \notin DOMAIN txs
    /\ txs' = MapPut(txs, t, [db |-> [arc |-> db.arc - 1, some |-> db.some],
                              batch |-> <<>>])
    /\ last' = Call("begin_transaction", <<t>>, Ok(Unit))
    /\ UNCHANGED <<db, disk, snaps, block_meta, bits_set, threads>>

\* begin_transaction: RocksDbTransaction::new(Arc::clone(&self.db))
BeginTransaction(t) ==
    /\ t \notin DOMAIN txs
    /\ txs' = MapPut(txs, t, [db |-> db, batch |-> <<>>])
    /\ last' = Call("begin_transaction", <<t>>, Ok(Unit))
    /\ UNCHANGED <<db, disk, snaps, block_meta, bits_set, threads>>

\* self.batch.lock().unwrap(), then the WriteBatch call
Stage(t, operation) ==
    [txs EXCEPT ![t].batch = Append(@, operation)]

\* a put that goes to the DB at once instead of into the batch
TransactionPut_writethrough(t, k, v) ==
    /\ t \in DOMAIN txs
    /\ Staged < MaxStaged
    /\ db.some
    /\ disk' = MapPut(disk, k, v)
    /\ last' = Call("transaction.put", <<t, k, v>>, Ok(Unit))
    /\ UNCHANGED <<db, txs, snaps, block_meta, bits_set, threads>>

TransactionPut(t, k, v) ==
    /\ t \in DOMAIN txs
    /\ Staged < MaxStaged
    /\ txs' = Stage(t, BatchPut(k, v))
    /\ last' = Call("transaction.put", <<t, k, v>>, Ok(Unit))
    /\ UNCHANGED <<db, disk, snaps, block_meta, bits_set, threads>>

TransactionDelete(t, k) ==
    /\ t \in DOMAIN txs
    /\ Staged < MaxStaged
    /\ txs' = Stage(t, BatchDelete(k))
    /\ last' = Call("transaction.delete", <<t, k>>, Ok(Unit))
    /\ UNCHANGED <<db, disk, snaps, block_meta, bits_set, threads>>

\* a clear that answers Ok and keeps the batch
TransactionClear_keeps_batch(t) ==
    /\ t \in DOMAIN txs
    /\ last' = Call("transaction.clear", <<t>>, Ok(Unit))
    /\ UNCHANGED <<db, disk, txs, snaps, block_meta, bits_set, threads>>

TransactionClear(t) ==
    /\ t \in DOMAIN txs
    /\ txs' = [txs EXCEPT ![t].batch = <<>>]
    /\ last' = Call("transaction.clear", <<t>>, Ok(Unit))
    /\ UNCHANGED <<db, disk, snaps, block_meta, bits_set, threads>>

RocksDbTransaction_len(transaction) == Len(transaction.batch)
RocksDbTransaction_is_empty(transaction) == transaction.batch = <<>>

\* a commit that writes the operations one by one and may fail after the first
Commit_partial(t) ==
    /\ t \in DOMAIN txs
    /\ txs' = MapDelete(txs, t)
    /\ IF txs[t].db.some
       THEN \/ /\ disk' = WriteBatch(disk, txs[t].batch)
               /\ last' = Call("commit", <<t>>, Ok(Unit))
            \/ /\ disk' = WriteBatch(disk, IF txs[t].batch = <<>> THEN <<>>
                                           ELSE <<Head(txs[t].batch)>>)
               /\ last' = Call("commit", <<t>>, BackendError)
       ELSE /\ UNCHANGED disk
            /\ last' = Call("commit", <<t>>, DbIsDropped)
    /\ UNCHANGED <<db, snaps, block_meta, bits_set, threads>>

\* commit(self: Box<Self>): the handle is consumed whatever the outcome
Commit(t) ==
    /\ t \in DOMAIN txs
    /\ txs' = MapDelete(txs, t)
    /\ IF txs[t].db.some
       THEN \/ /\ disk' = WriteBatch(disk, txs[t].batch)
               /\ last' = Call("commit", <<t>>, Ok(Unit))
            \/ /\ UNCHANGED disk
               /\ last' = Call("commit", <<t>>, BackendError)
       ELSE /\ UNCHANGED disk
            /\ last' = Call("commit", <<t>>, DbIsDropped)
    /\ UNCHANGED <<db, snaps, block_meta, bits_set, threads>>

\* the Box<dyn KvcTransaction> is dropped without a commit
TransactionDrop(t) ==
    /\ t \in DOMAIN txs
    /\ txs' = MapDelete(txs, t)
    /\ last' = Call("transaction_drop", <<t>>, Ok(Unit))
    /\ UNCHANGED <<db, disk, snaps, block_meta, bits_set, threads>>

----------------------------------------------------------------------------
(* Kvc::destroy *)

\* Arc::strong_count of the Arc the collection holds
StrongCount == 1 + Cardinality({t \in DOMAIN txs : txs[t].db.arc = db.arc})

\* no ownership check
ArcGetMut_unchecked == TRUE

\* Arc::get_mut(&mut self.db): Some only for the one owner
ArcGetMut == StrongCount = 1

\* a destroy that closes and removes the DB before it reports the handles alive
Destroy_closes_anyway ==
    /\ DOMAIN snaps = {}
    /\ db' = IF db.some THEN [arc |-> db.arc + 1, some |-> FALSE] ELSE db
    /\ disk' = EmptyMap
    /\ last' = Call("destroy", <<>>,
                    IF ~ArcGetMut THEN HasActiveTransactions ELSE Ok(Unit))
    /\ UNCHANGED <<txs, snaps, block_meta, bits_set, threads>>

\* destroy(&mut self): no snapshot borrows the collection when it is called
Destroy ==
    /\ DOMAIN snaps = {}
    /\ IF ~ArcGetMut
       THEN /\ last' = Call("destroy", <<>>, HasActiveTransactions)
            /\ UNCHANGED <<db, disk>>
       ELSE /\ db' = IF db.some THEN [arc |-> db.arc + 1, some |-> FALSE] ELSE db
            /\ disk' = EmptyMap
            /\ last' = Call("destroy", <<>>, Ok(Unit))
    /\ UNCHANGED <<txs, snaps, block_meta, bits_set, threads>>

----------------------------------------------------------------------------
(* CellDb: get_cell, put_cell (src/src/cell_db.rs) *)

\* a lookup that decodes an empty value when the key is absent
CellDb_get_cell_or_default(self, cell_id) ==
    IF ~self.db.some THEN DbIsDropped
    ELSE deserialize_cell(IF cell_id \in DOMAIN self.disk
                          THEN self.disk[cell_id] ELSE <<>>)

\* get_cell: deserialize_cell(self.db.get(&cell_id)?.as_ref(), boc_db)
CellDb_get_cell(self, cell_id) ==
    IF RocksDb_get(self, cell_id).tag # "Ok" THEN RocksDb_get(self, cell_id)
    ELSE deserialize_cell(RocksDb_get(self, cell_id).val)

\* a put_cell that writes the encoded cell to the DB
PutCell_direct(t, cell_id, cell, put_result) ==
    /\ t \in DOMAIN txs
    /\ Staged < MaxStaged
    /\ db.some
    /\ serialize_cell(cell).tag = "Ok"
    /\ disk' = MapPut(disk, cell_id, serialize_cell(cell).val)
    /\ last' = Call("put_cell", <<t, cell_id, cell, put_result>>, Ok(Unit))
    /\ UNCHANGED <<db, txs, snaps, block_meta, bits_set, threads>>

\* a put_cell that returns what transaction.put returned
PutCell_checked(t, cell_id, cell, put_result) ==
    /\ t \in DOMAIN txs
    /\ Staged < MaxStaged
    /\ IF serialize_cell(cell).tag # "Ok"
       THEN /\ UNCHANGED txs
            /\ last' = Call("put_cell", <<t, cell_id, cell, put_result>>,
                            serialize_cell(cell))
       ELSE /\ txs' = IF put_result.tag = "Ok"
                      THEN Stage(t, BatchPut(cell_id, serialize_cell(cell).val))
                      ELSE txs
            /\ last' = Call("put_cell", <<t, cell_id, cell, put_result>>, put_result)
    /\ UNCHANGED <<db, disk, snaps, block_meta, bits_set, threads>>

\* put_cell: transaction.put(cell_id, &serialize_cell(cell)?); Ok(())
\* T is any KvcTransaction: put_result is what its put returns, having staged
\* the put when that is Ok; the statement drops that result
PutCell(t, cell_id, cell, put_result) ==
    /\ t \in DOMAIN txs
    /\ Staged < MaxStaged
    /\ IF serialize_cell(cell).tag # "Ok"
       THEN /\ UNCHANGED txs
            /\ last' = Call("put_cell", <<t, cell_id, cell, put_result>>,
                            serialize_cell(cell))
       ELSE /\ txs' = IF put_result.tag = "Ok"
                      THEN Stage(t, BatchPut(cell_id, serialize_cell(cell).val))
                      ELSE txs
            /\ last' = Call("put_cell", <<t, cell_id, cell, put_result>>, Ok(Unit))
    /\ UNCHANGED <<db, disk, snaps, block_meta, bits_set, threads>>

----------------------------------------------------------------------------
(* The inputs and the specifications of the store *)

H1 == Hash(17)
H2 == Hash(34)

\* the cells handed to put_cell; the last one breaks the contract of serialize_cell
CellA == Cell(<<1, 2>>, <<H1, H2>>)
CellB == Cell(<<7>>, <<>>)
CellTooManyRefs == Cell(<<7>>, <<H1, H1, H1, H1, H1>>)
Cells == {CellA, CellB, CellTooManyRefs}

\* the values written directly: encoded cells
Values == {serialize_cell(CellA).val, serialize_cell(CellB).val}

\* what a for_each visitor answers per key
Predicates == [Keys -> {"true", "false", "err"}]

Init ==
    /\ db = [arc |-> 0, some |-> TRUE]
    /\ disk = EmptyMap
    /\ txs = EmptyMap
    /\ snaps = EmptyMap
    /\ block_meta = [flags |-> 0, masterchain_ref_seq_no |-> 0]
    /\ bits_set = {}
    /\ threads = ThreadsInit
    /\ last = Call("with_path", <<>>, Ok(Unit))

\* the collection with two transaction handles
TxIds == {1, 2}

Next ==
    \/ \E k \in Keys, v \in Values : Put(k, v)
    \/ \E k \in Keys : Delete(k)
    \/ \E t \in TxIds : BeginTransaction(t)
    \/ \E t \in TxIds, k \in Keys, v \in Values : TransactionPut(t, k, v)
    \/ \E t \in TxIds, k \in Keys : TransactionDelete(t, k)
    \/ \E t \in TxIds : TransactionClear(t)
    \/ \E t \in TxIds : Commit(t)
    \/ \E t \in TxIds : TransactionDrop(t)
    \/ Destroy
    \/ \E t \in TxIds, k \in Keys, c \in Cells : PutCell(t, k, c, Ok(Unit))

Spec == Init /\ [][Next]_vars

\* the collection with a snapshot and one transaction handle
SnapIds == {1}

\* the values written while a snapshot is around: short byte strings
SnapValues == {<<1>>, <<2>>}

NextSnap ==
    \/ \E k \in Keys, v \in SnapValues : Put(k, v)
    \/ \E k \in Keys : Delete(k)
    \/ \E s \in SnapIds : Snapshot(s)
    \/ \E s \in SnapIds : SnapshotDrop(s)
    \/ BeginTransaction(1)
    \/ \E k \in Keys, v \in SnapValues : TransactionPut(1, k, v)
    \/ \E k \in Keys : TransactionDelete(1, k)
    \/ TransactionClear(1)
    \/ Commit(1)
    \/ TransactionDrop(1)
    \/ Destroy

SpecSnap == Init /\ [][NextSnap]_vars

----------------------------------------------------------------------------
(* The cell store alone, with any bytes written under a key *)

\* a record whose reference-count byte is 5, followed by 5 hashes
RecordFiveRefs == CellDataSerialize(<<7>>) \o <<MaxRefsExcl>> \o Concat(CellTooManyRefs.refs)
\* a record cut inside its second hash
RecordTruncated == SubSeq(serialize_cell(CellA).val, 1, 4 + HashLen + 1)
StoredBytes == {<<>>, RecordFiveRefs, RecordTruncated, serialize_cell(CellB).val}

\* what the put of a KvcTransaction may return
PutResults == {Ok(Unit), BackendError}

NextCell ==
    \/ \E v \in StoredBytes : Put(1, v)
    \/ Delete(1)
    \/ BeginTransaction(1)
    \/ \E c \in Cells, r \in PutResults : PutCell(1, 1, c, r)
    \/ Commit(1)

SpecCell == Init /\ [][NextCell]_vars

----------------------------------------------------------------------------
(* The codec alone: a cell is drawn, encoded, and the bytes are decoded *)

\* bytes of cell data
MaxDataLen == 2
DataBytes == {0, 255}
RefHashes == {H1, H2}

SeqsUpTo(S, n) == UNION {[1..m -> S] : m \in 0..n}

CodecCells == {Cell(d, hs) : d \in SeqsUpTo(DataBytes, MaxDataLen),
                             hs \in SeqsUpTo(RefHashes, MaxRefsExcl)}

InitCodec ==
    /\ db = [arc |-> 0, some |-> TRUE]
    /\ disk = EmptyMap
    /\ txs = EmptyMap
    /\ snaps = EmptyMap
    /\ block_meta = [flags |-> 0, masterchain_ref_seq_no |-> 0]
    /\ bits_set = {}
    /\ threads = ThreadsInit
    /\ \E c \in CodecCells : last = Call("Cell", <<c>>, Ok(Unit))

SerializeCell ==
    /\ last.op = "Cell"
    /\ last' = Call("serialize_cell", last.args, serialize_cell(last.args[1]))
    /\ UNCHANGED <<storeVars, metaVars>>

DeserializeCell ==
    /\ last.op = "serialize_cell"
    /\ last.res.tag = "Ok"
    /\ last' = Call("deserialize_cell", <<last.args[1], last.res.val>>,
                    deserialize_cell(last.res.val))
    /\ UNCHANGED <<storeVars, metaVars>>

NextCodec == SerializeCell \/ DeserializeCell

SpecCodec == InitCodec /\ [][NextCodec]_vars

----------------------------------------------------------------------------
(* BlockMeta flags and the masterchain reference (src/src/archives/mod.rs) *)

RECURSIVE BitAnd(_, _)
BitAnd(a, b) ==
    IF a = 0 \/ b = 0 THEN 0
    ELSE (a % 2) * (b % 2) + 2 * BitAnd(a \div 2, b \div 2)

RECURSIVE BitOr(_, _)
BitOr(a, b) ==
    IF a = 0 THEN b
    ELSE IF b = 0 THEN a
    ELSE (IF a % 2 = 1 \/ b % 2 = 1 THEN 1 ELSE 0) + 2 * BitOr(a \div 2, b \div 2)

FLAG_KEY_BLOCK == 2^11
FLAG_DATA == 1
FLAG_PROOF == 2^1
FLAG_PROOF_LINK == 2^2
FLAG_MOVED_TO_ARCHIVE == 2^13
Flags == {FLAG_DATA, FLAG_PROOF, FLAG_PROOF_LINK, FLAG_KEY_BLOCK, FLAG_MOVED_TO_ARCHIVE}

\* block_meta.flags().load(SeqCst)
flags(meta) == meta.flags

\* a comparison of the whole word instead of the masked bits
is_flag_equal(meta, flag) == flags(meta) = flag

is_flag(meta, flag) == BitAnd(flags(meta), flag) = flag

is_key_block(meta) == is_flag(meta, FLAG_KEY_BLOCK)
is_data_inited(meta) == is_flag(meta, FLAG_DATA)
is_proof_inited(meta) == is_flag(meta, FLAG_PROOF)
is_prooflink_inited(meta) == is_flag(meta, FLAG_PROOF_LINK)
is_moved_to_archive(meta) == is_flag(meta, FLAG_MOVED_TO_ARCHIVE)

\* a BlockIdExt: whether its shard is the masterchain, and its seq_no
BlockIdExt(mc, seq_no) == [is_masterchain |-> mc, seq_no |-> seq_no]

\* a resolution that reads the metadata for every block
get_mc_seq_no_from_meta(block_id, meta) == meta.masterchain_ref_seq_no

get_mc_seq_no(block_id, meta) ==
    IF block_id.is_masterchain THEN block_id.seq_no
    ELSE meta.masterchain_ref_seq_no

\* block_handle: <<>> for None, <<block_id, meta>> for Some
get_mc_seq_no_opt(block_handle) ==
    IF block_handle # <<>> THEN get_mc_seq_no(block_handle[1], block_handle[2])
    ELSE 0

\* sequence numbers of the model
MaxSeqNo == 2

\* a flag bit is set on the metadata: an atomic or into the flags word
SetFlags(flag) ==
    /\ block_meta' = [block_meta EXCEPT !.flags = BitOr(@, flag)]
    /\ bits_set' = bits_set \cup {flag}
    /\ last' = Call("set_flags", <<flag>>, Ok(Unit))
    /\ UNCHANGED <<storeVars, threads>>

\* the masterchain reference is set once the masterchain block is known
SetMasterchainRefSeqNo(n) ==
    /\ block_meta.masterchain_ref_seq_no = 0
    /\ block_meta' = [block_meta EXCEPT !.masterchain_ref_seq_no = n]
    /\ last' = Call("set_masterchain_ref_seq_no", <<n>>, Ok(Unit))
    /\ UNCHANGED <<storeVars, bits_set, threads>>

NextMeta ==
    \/ \E f \in Flags : SetFlags(f)
    \/ \E n \in 1..MaxSeqNo : SetMasterchainRefSeqNo(n)

SpecMeta == Init /\ [][NextMeta]_vars

----------------------------------------------------------------------------
(* BlockId: the storage key of a block (src/src/types/block_id.rs) *)

\* to_le_bytes of an integer of n bytes (two's complement for a negative i32)
RECURSIVE ToLeBytes(_, _)
ToLeBytes(x, n) ==
    IF n = 0 THEN <<>> ELSE <<x % 256>> \o ToLeBytes(x \div 256, n - 1)

\* Sha256 of the bytes fed to the hasher, taken as collision-free: the digest
\* stands for its input and for nothing else
Sha256(input) == [sha256 |-> input]

\* a BlockIdExt: shard_id (workchain_id, shard_prefix_with_tag), seq_no and hashes
BlockIdExtOf(workchain_id, shard_prefix_with_tag, seq_no, root_hash, file_hash) ==
    [workchain_id |-> workchain_id, shard_prefix_with_tag |-> shard_prefix_with_tag,
     seq_no |-> seq_no, root_hash |-> root_hash, file_hash |-> file_hash]

\* a key that leaves the file hash out
BlockId_from_without_file_hash(block_id_ext) ==
    [key |-> Sha256(ToLeBytes(block_id_ext.workchain_id, 4)
                    \o ToLeBytes(block_id_ext.shard_prefix_with_tag, 8)
                    \o ToLeBytes(block_id_ext.seq_no, 4)
                    \o block_id_ext.root_hash),
     block_id_ext |-> block_id_ext]

\* impl From<BlockIdExt> for BlockId
BlockId_from(block_id_ext) ==
    [key |-> Sha256(ToLeBytes(block_id_ext.workchain_id, 4)
                    \o ToLeBytes(block_id_ext.shard_prefix_with_tag, 8)
                    \o ToLeBytes(block_id_ext.seq_no, 4)
                    \o block_id_ext.root_hash
                    \o block_id_ext.file_hash),
     block_id_ext |-> block_id_ext]

\* DbKey::key
BlockId_key(block_id) == block_id.key

\* the identifiers drawn: the masterchain and the base workchain, shard
\* prefixes, sequence numbers that differ in one byte only, two hashes
WorkchainIds == {-1, 0}
ShardPrefixes == {1, 256}
SeqNos == {0, 1, 256}
BlockIdExts ==
    {BlockIdExtOf(w, sh, n, r, f) : w \in WorkchainIds, sh \in ShardPrefixes,
                                    n \in SeqNos, r \in RefHashes, f \in RefHashes}

InitKey ==
    /\ db = [arc |-> 0, some |-> TRUE]
    /\ disk = EmptyMap
    /\ txs = EmptyMap
    /\ snaps = EmptyMap
    /\ block_meta = [flags |-> 0, masterchain_ref_seq_no |-> 0]
    /\ bits_set = {}
    /\ threads = ThreadsInit
    /\ \E a \in BlockIdExts, b \in BlockIdExts :
           last = Call("BlockIdExt", <<a, b>>, Ok(Unit))

\* two identifiers are turned into keys
BlockIdFrom ==
    /\ last.op = "BlockIdExt"
    /\ last' = Call("BlockId::from", last.args,
                    Ok(<<BlockId_key(BlockId_from(last.args[1])),
                         BlockId_key(BlockId_from(last.args[2]))>>))
    /\ UNCHANGED <<storeVars, metaVars>>

\* the same identifier is turned into a key once more
BlockIdFromAgain ==
    /\ last.op = "BlockId::from"
    /\ last' = Call("BlockId::from again", last.args,
                    Ok(<<last.res.val[1],
                         BlockId_key(BlockId_from(last.args[1]))>>))
    /\ UNCHANGED <<storeVars, metaVars>>

NextKey == BlockIdFrom \/ BlockIdFromAgain

SpecKey == InitKey /\ [][NextKey]_vars

----------------------------------------------------------------------------
(* The collection and a snapshot, read by for_each: direct writes only *)

NextIter ==
    \/ \E k \in Keys, v \in SnapValues : Put(k, v)
    \/ \E k \in Keys : Delete(k)
    \/ \E s \in SnapIds : Snapshot(s)
    \/ \E s \in SnapIds : SnapshotDrop(s)

SpecIter == Init /\ [][NextIter]_vars

----------------------------------------------------------------------------
(* Threads staging into one RocksDbTransaction: self.batch.lock().unwrap()  *)
(* and then WriteBatch::put / delete on the batch behind the Mutex.  A call *)
(* is three steps: it is entered, the Mutex is taken and the batch found,   *)
(* the batch is written with one more operation and the guard is dropped.   *)

\* the operations the threads stage
StagedOperations ==
    {BatchPut(k, v) : k \in Keys, v \in SnapValues} \cup {BatchDelete(k) : k \in Keys}

\* the calls entered and not yet returned
InFlight == Cardinality({i \in ThreadIds : threads.pc[i] # "idle"})

\* a Mutex that any thread may take at any time
MutexFree_always == TRUE

\* Mutex::lock returns once no other thread holds the guard
MutexFree == threads.mutex = 0

\* thread i enters put or delete of the handle it shares
ThreadCall(i, operation) ==
    /\ 1 \in DOMAIN txs
    /\ threads.pc[i] = "idle"
    /\ Staged + InFlight < MaxStaged
    /\ threads' = [threads EXCEPT !.pc[i] = "lock", !.operation[i] = operation]
    /\ UNCHANGED <<storeVars, block_meta, bits_set, last>>

\* self.batch.lock().unwrap(): the guard, and the batch as the thread finds it
ThreadLock(i) ==
    /\ threads.pc[i] = "lock"
    /\ MutexFree
    /\ threads' = [threads EXCEPT !.mutex = i, !.pc[i] = "write",
                                  !.batch[i] = txs[1].batch]
    /\ UNCHANGED <<storeVars, block_meta, bits_set, last>>

\* WriteBatch::put / delete through the guard; the guard is dropped on return
ThreadWrite(i) ==
    /\ threads.pc[i] = "write"
    /\ txs' = [txs EXCEPT ![1].batch = Append(threads.batch[i], threads.operation[i])]
    /\ threads' = [threads EXCEPT
                      !.mutex = IF @ = i THEN 0 ELSE @,
                      !.pc[i] = "idle",
                      !.operation[i] = Unit,
                      !.batch[i] = Unit,
                      !.staged = Append(@, [thread |-> i,
                                            operation |-> threads.operation[i]])]
    /\ last' = Call(IF threads.operation[i].op = "put"
                    THEN "transaction.put" ELSE "transaction.delete",
                    <<1, threads.operation[i].key, threads.operation[i].value>>,
                    Ok(Unit))
    /\ UNCHANGED <<db, disk, snaps, block_meta, bits_set>>

\* commit(self: Box<Self>) takes the handle: no thread is inside a call on it
ThreadsCommit ==
    /\ InFlight = 0
    /\ Commit(1)

\* the one handle the threads share is begun on the fresh collection
ThreadsBegin ==
    /\ last.op = "with_path"
    /\ BeginTransaction(1)

NextThreads ==
    \/ ThreadsBegin
    \/ \E i \in ThreadIds, operation \in StagedOperations : ThreadCall(i, operation)
    \/ \E i \in ThreadIds : ThreadLock(i)
    \/ \E i \in ThreadIds : ThreadWrite(i)
    \/ ThreadsCommit

SpecThreads == Init /\ [][NextThreads]_vars

----------------------------------------------------------------------------
(* What the calls that only read return *)

LiveReads(self) ==
    [get |-> [k \in Keys |-> RocksDb_get(self, k)],
     contains |-> [k \in Keys |-> RocksDb_contains(self, k)],
     for_each |-> [p \in Predicates |-> RocksDb_for_each(self, p)]]

SnapshotReads(snapshot) ==
    [get |-> [k \in Keys |-> RocksDbSnapshot_get(snapshot, k)],
     contains |-> [k \in Keys |-> RocksDbSnapshot_contains(snapshot, k)],
     for_each |-> [p \in Predicates |-> RocksDbSnapshot_for_each(snapshot, p)]]

StagingOps == {"transaction.put", "transaction.delete", "transaction.clear", "put_cell"}

\* the last operation of a batch on key k, if any
Touches(batch, k) == {i \in 1..Len(batch) : batch[i].key = k}
FinalOp(batch, k) ==
    batch[CHOOSE i \in Touches(batch, k) : \A j \in Touches(batch, k) : j <= i]

\* the batch the last call, a commit, consumed
CommittedBatch == last.pre.txs[last.args[1]].batch

----------------------------------------------------------------------------
(* The claims.  `last.pre` is the state the last call was made in, so a     *)
(* statement about last and last.pre is a statement about that call's step. *)

\* C1: a call that stages a put, delete or clear into a transaction leaves every
\* get, contains and for_each of the live store and of every snapshot as it was;
\* what the live (not destroyed) store returns changes only at a successful
\* direct put or delete or at a successful commit.
C1_StagingInvisible ==
    /\ last.op \in StagingOps =>
          /\ LiveReads(Self) = LiveReads(last.pre)
          /\ \A s \in DOMAIN last.pre.snaps :
                 /\ s \in DOMAIN snaps
                 /\ SnapshotReads(snaps[s]) = SnapshotReads(last.pre.snaps[s])
    /\ (last.pre.db.some /\ db.some /\ LiveReads(Self) # LiveReads(last.pre)) =>
          (last.op \in {"put", "delete", "commit"} /\ last.res.tag = "Ok")

\* a second operation, a put, was staged for a key the live store and a
\* snapshot do not hold
C1_Witness ==
    /\ last.op = "transaction.put"
    /\ db.some
    /\ DOMAIN snaps # {}
    /\ RocksDb_get(Self, last.args[2]).tag = "KeyNotFound"
    /\ \A s \in DOMAIN snaps :
           RocksDbSnapshot_get(snaps[s], last.args[2]).tag = "KeyNotFound"
    /\ Len(txs[last.args[1]].batch) = 2

\* C2: a commit either succeeds, and then for every key the batch names the
\* reads return the outcome of the batch's last operation on it (and the other
\* keys are as before), or fails, and then every read is as before the commit.
C2_CommitAllOrNothing ==
    last.op = "commit" =>
        \/ /\ last.res.tag = "Ok"
           /\ \A k \in Keys :
                IF Touches(CommittedBatch, k) = {}
                THEN /\ RocksDb_get(Self, k) = RocksDb_get(last.pre, k)
                     /\ RocksDb_contains(Self, k) = RocksDb_contains(last.pre, k)
                ELSE IF FinalOp(CommittedBatch, k).op = "put"
                THEN /\ RocksDb_get(Self, k) = Ok(FinalOp(CommittedBatch, k).value)
                     /\ RocksDb_contains(Self, k) = Ok(TRUE)
                ELSE /\ RocksDb_get(Self, k) = KeyNotFound(k)
                     /\ RocksDb_contains(Self, k) = Ok(FALSE)
        \/ /\ last.res.tag # "Ok"
           /\ LiveReads(Self) = LiveReads(last.pre)

\* a batch of a put and a delete on two keys the store held was committed
C2_Witness ==
    /\ last.op = "commit"
    /\ last.res.tag = "Ok"
    /\ DOMAIN last.pre.disk = Keys
    /\ Len(CommittedBatch) = 2
    /\ CommittedBatch[1].op = "put"
    /\ CommittedBatch[2].op = "delete"
    /\ CommittedBatch[1].key # CommittedBatch[2].key
    /\ RocksDb_get(last.pre, CommittedBatch[1].key) # Ok(CommittedBatch[1].value)
    /\ RocksDb_get(Self, CommittedBatch[1].key) = Ok(CommittedBatch[1].value)
    /\ RocksDb_contains(Self, CommittedBatch[2].key) = Ok(FALSE)

\* a commit of two operations failed and the store is as it was
C2_WitnessFailed ==
    /\ last.op = "commit"
    /\ last.res = BackendError
    /\ Len(CommittedBatch) = 2
    /\ WriteBatch(last.pre.disk, CommittedBatch) # last.pre.disk
    /\ LiveReads(Self) = LiveReads(last.pre)

\* C3: a snapshot returns, for every key and visitor, what the live store
\* returned when snapshot() was called, and goes on returning it whatever is
\* put, deleted or committed afterwards.
C3_SnapshotIsolation ==
    /\ (last.op = "snapshot" /\ last.res.tag = "Ok") =>
          /\ last.args[1] \in DOMAIN snaps
          /\ SnapshotReads(snaps[last.args[1]]) = LiveReads(last.pre)
    /\ \A s \in DOMAIN snaps \cap DOMAIN last.pre.snaps :
          SnapshotReads(snaps[s]) = SnapshotReads(last.pre.snaps[s])

\* a commit deleted a key and a snapshot taken before it still returns its value
C3_Witness ==
    /\ last.op = "commit"
    /\ last.res.tag = "Ok"
    /\ db.some
    /\ \E s \in DOMAIN snaps : \E k \in Keys :
           /\ RocksDbSnapshot_get(snaps[s], k).tag = "Ok"
           /\ RocksDb_get(Self, k).tag = "KeyNotFound"
           /\ RocksDb_get(last.pre, k).tag = "Ok"

\* C4: destroy() returns HasActiveTransactions when a transaction handle is
\* alive and Ok when none is.
C4_DestroySafety ==
    last.op = "destroy" =>
        /\ DOMAIN txs # {} => last.res = HasActiveTransactions
        /\ DOMAIN txs = {} => last.res = Ok(Unit)

\* destroy was refused with two handles alive
C4_Witness ==
    /\ last.op = "destroy"
    /\ last.res = HasActiveTransactions
    /\ db.some
    /\ DOMAIN txs = TxIds

\* destroy succeeded on a store no handle refers to
C4_WitnessOk ==
    /\ last.op = "destroy"
    /\ last.res = Ok(Unit)
    /\ last.pre.db.some
    /\ DOMAIN last.pre.disk # {}
    /\ ~db.some

\* C5: after a successful destroy every operation fails with DbIsDropped: the
\* reads, and put, delete, snapshot, begin_transaction, staging and commit.
C5_AllFailAfterDestroy ==
    ~last.pre.db.some =>
        /\ \A k \in Keys : RocksDb_get(Self, k) = DbIsDropped
        /\ \A k \in Keys : RocksDb_contains(Self, k) = DbIsDropped
        /\ \A p \in Predicates : RocksDb_for_each(Self, p).ret = DbIsDropped
        /\ \A k \in Keys : CellDb_get_cell(Self, k) = DbIsDropped
        /\ last.op \in {"put", "delete", "snapshot", "begin_transaction",
                        "transaction.put", "transaction.delete",
                        "transaction.clear", "commit"}
             => last.res = DbIsDropped

\* the part of C5 the code keeps: the reads, put, delete, snapshot and commit
C5_DroppedExceptBeginAndStaging ==
    ~last.pre.db.some =>
        /\ \A k \in Keys : RocksDb_get(Self, k) = DbIsDropped
        /\ \A k \in Keys : RocksDb_contains(Self, k) = DbIsDropped
        /\ \A p \in Predicates : RocksDb_for_each(Self, p).ret = DbIsDropped
        /\ \A k \in Keys : CellDb_get_cell(Self, k) = DbIsDropped
        /\ last.op \in {"put", "delete", "snapshot", "commit"}
             => last.res = DbIsDropped

\* C6: on a store that is not destroyed, get_cell of a key the store does not
\* hold (never written, or deleted, or only staged) returns KeyNotFound with
\* the key in hex: no panic, no cell.
C6_GetCellNotFound ==
    db.some =>
        /\ \A k \in Keys :
               k \notin DOMAIN disk => CellDb_get_cell(Self, k) = KeyNotFound(k)
        /\ (last.op = "delete" /\ last.res.tag = "Ok")
               => CellDb_get_cell(Self, last.args[1]) = KeyNotFound(last.args[1])
        /\ last.op = "with_path"
               => \A k \in Keys : CellDb_get_cell(Self, k) = KeyNotFound(k)

\* a cell was deleted and another is only staged under its key
C6_Witness ==
    /\ last.op = "delete"
    /\ last.res.tag = "Ok"
    /\ db.some
    /\ CellDb_get_cell(last.pre, last.args[1]).tag = "Ok"
    /\ CellDb_get_cell(Self, last.args[1]) = KeyNotFound(last.args[1])
    /\ \E t \in DOMAIN txs : Touches(txs[t].batch, last.args[1]) # {}

\* C7: a put_cell that returns Ok leaves the DB, the snapshots and every
\* get_cell as they were and adds one put of the encoded cell to the batch of
\* the given transaction; a successful commit makes get_cell return the decoded
\* bytes of the batch's last put for the key.
C7_PutCellStagesOnly ==
    /\ (last.op = "put_cell" /\ last.res.tag = "Ok") =>
          /\ disk = last.pre.disk /\ db = last.pre.db /\ snaps = last.pre.snaps
          /\ \A k \in Keys : CellDb_get_cell(Self, k) = CellDb_get_cell(last.pre, k)
          /\ txs = [last.pre.txs EXCEPT ![last.args[1]].batch =
                        Append(@, BatchPut(last.args[2],
                                           serialize_cell(last.args[3]).val))]
    /\ (last.op = "commit" /\ last.res.tag = "Ok") =>
          \A k \in Keys :
              (Touches(CommittedBatch, k) # {} /\ FinalOp(CommittedBatch, k).op = "put")
                 => CellDb_get_cell(Self, k)
                      = deserialize_cell(FinalOp(CommittedBatch, k).value)

\* a cell was staged by put_cell and get_cell does not find it yet
C7_Witness ==
    /\ last.op = "put_cell"
    /\ last.res.tag = "Ok"
    /\ db.some
    /\ CellDb_get_cell(Self, last.args[2]).tag = "KeyNotFound"
    /\ txs[last.args[1]].batch
         = <<BatchPut(last.args[2], serialize_cell(last.args[3]).val)>>

\* the staged cell was committed and get_cell returns it
C7_WitnessCommitted ==
    /\ last.op = "commit"
    /\ last.res.tag = "Ok"
    /\ Len(CommittedBatch) = 1
    /\ CommittedBatch[1].op = "put"
    /\ CellDb_get_cell(last.pre, CommittedBatch[1].key).tag = "KeyNotFound"
    /\ CellDb_get_cell(Self, CommittedBatch[1].key).tag = "Ok"
    /\ Len(CellDb_get_cell(Self, CommittedBatch[1].key).val.references) = 2

\* C8: a cell with at most 4 references encodes, and decoding the bytes gives
\* its cell data and, in order, one not-loaded reference per child hash.
C8_CodecRoundTrip ==
    /\ (last.op = "serialize_cell" /\ Len(last.args[1].refs) < MaxRefsExcl)
           => last.res.tag = "Ok"
    /\ last.op = "deserialize_cell" =>
           /\ last.res.tag = "Ok"
           /\ last.res.val.cell_data = last.args[1].cell_data
           /\ Len(last.res.val.references) = Len(last.args[1].refs)
           /\ \A i \in 1..Len(last.args[1].refs) :
                  last.res.val.references[i] = NeedToLoad(last.args[1].refs[i])

\* a cell with data and 4 references, not all the same, went through
C8_Witness ==
    /\ last.op = "deserialize_cell"
    /\ last.res.tag = "Ok"
    /\ last.args[1].cell_data # <<>>
    /\ Len(last.args[1].refs) = 4
    /\ last.args[1].refs[1] # last.args[1].refs[2]
    /\ Len(last.res.val.references) = 4

\* C9: every cell get_cell returns has at most 4 references, whatever bytes
\* are stored under the key.
C9_RefCountAtMostFour ==
    \A k \in Keys :
        CellDb_get_cell(Self, k).tag = "Ok"
            => Len(CellDb_get_cell(Self, k).val.references) < MaxRefsExcl

RECURSIVE OrAll(_)
OrAll(S) ==
    IF S = {} THEN 0
    ELSE LET x == CHOOSE y \in S : TRUE IN BitOr(x, OrAll(S \ {x}))

\* C10: is_flag(X) is true exactly for the bits set so far (the flags word is
\* their OR): a bit never set tests false, setting X leaves is_flag(Y) alone
\* for every other bit Y, and a bit that tested true before a call tests true
\* after it.
C10_FlagMonotonicity ==
    /\ \A X \in Flags : is_flag(block_meta, X) <=> X \in bits_set
    /\ flags(block_meta) = OrAll(bits_set)
    /\ is_key_block(block_meta) <=> FLAG_KEY_BLOCK \in bits_set
    /\ is_data_inited(block_meta) <=> FLAG_DATA \in bits_set
    /\ is_proof_inited(block_meta) <=> FLAG_PROOF \in bits_set
    /\ is_prooflink_inited(block_meta) <=> FLAG_PROOF_LINK \in bits_set
    /\ is_moved_to_archive(block_meta) <=> FLAG_MOVED_TO_ARCHIVE \in bits_set
    /\ \A X \in Flags : is_flag(last.pre.block_meta, X) => is_flag(block_meta, X)
    /\ last.op = "set_flags" =>
          \A Y \in Flags \ {last.args[1]} :
              is_flag(block_meta, Y) <=> is_flag(last.pre.block_meta, Y)

\* two bits were set, the second last, and a third one was not
C10_Witness ==
    /\ last.op = "set_flags"
    /\ last.args[1] = FLAG_MOVED_TO_ARCHIVE
    /\ bits_set = {FLAG_DATA, FLAG_MOVED_TO_ARCHIVE}
    /\ is_data_inited(block_meta)
    /\ is_moved_to_archive(block_meta)
    /\ ~is_proof_inited(block_meta)

\* C11: BlockId::from gives the same key for two identifiers equal in all five
\* fields (and the same key when called again on one identifier), and different
\* keys for two identifiers that differ in at least one field, the hash taken
\* as collision-free.
C11_KeyDeterminism ==
    /\ last.op = "BlockId::from" =>
          (last.res.val[1] = last.res.val[2]
             <=> /\ last.args[1].workchain_id = last.args[2].workchain_id
                 /\ last.args[1].shard_prefix_with_tag = last.args[2].shard_prefix_with_tag
                 /\ last.args[1].seq_no = last.args[2].seq_no
                 /\ last.args[1].root_hash = last.args[2].root_hash
                 /\ last.args[1].file_hash = last.args[2].file_hash)
    /\ last.op = "BlockId::from again" => last.res.val[1] = last.res.val[2]

\* two identifiers that differ in the file hash only got different keys
C11_Witness ==
    /\ last.op = "BlockId::from"
    /\ last.args[1].file_hash # last.args[2].file_hash
    /\ [last.args[1] EXCEPT !.file_hash = last.args[2].file_hash] = last.args[2]
    /\ last.args[1].workchain_id = -1
    /\ last.args[1].seq_no = 256
    /\ last.res.val[1] # last.res.val[2]

\* the entries of some contents by ascending key
Entries(view) ==
    CHOOSE e \in [1..Cardinality(DOMAIN view) -> (DOMAIN view) \X SnapValues] :
        /\ \A i \in DOMAIN e : e[i][2] = view[e[i][1]]
        /\ \A i, j \in DOMAIN e : i < j => e[i][1] < e[j][1]

\* what for_each is to return and visit, given the entries and a visitor
ForEachAsClaimed(r, entries, predicate) ==
    /\ Len(r.visited) <= Len(entries)
    /\ r.visited = SubSeq(entries, 1, Len(r.visited))
    /\ \A i \in 1..(Len(r.visited) - 1) : predicate[r.visited[i][1]] = "true"
    /\ r.ret = Ok(TRUE) <=> \A i \in DOMAIN entries : predicate[entries[i][1]] = "true"
    /\ r.ret = Ok(TRUE) => r.visited = entries
    /\ r.ret = Ok(FALSE) =>
          /\ r.visited # <<>>
          /\ predicate[r.visited[Len(r.visited)][1]] = "false"
    /\ r.ret \notin {Ok(TRUE), Ok(FALSE)} =>
          /\ r.visited # <<>>
          /\ predicate[r.visited[Len(r.visited)][1]] = "err"
          /\ r.ret = Err("PredicateError", Unit)

\* C12: for_each on the open live store and on a snapshot visits the entries by
\* ascending key, stops at the first entry the visitor answers false for
\* (returning false) or fails on (returning the error), and returns true exactly
\* when the visitor answered true for every entry, all of them visited.
C12_ForEach ==
    \A p \in Predicates :
        /\ db.some => ForEachAsClaimed(RocksDb_for_each(Self, p), Entries(disk), p)
        /\ \A s \in DOMAIN snaps :
               ForEachAsClaimed(RocksDbSnapshot_for_each(snaps[s], p),
                                Entries(snaps[s]), p)

\* the store holds two entries and the visitor answers false for the first:
\* the second is not visited; a snapshot with one entry is read to the end
C12_Witness ==
    /\ db.some
    /\ DOMAIN disk = Keys
    /\ \E p \in Predicates :
          /\ p[1] = "false"
          /\ RocksDb_for_each(Self, p) = [visited |-> <<<<1, disk[1]>>>>, ret |-> Ok(FALSE)]
    /\ \E s \in DOMAIN snaps : \E p \in Predicates :
          /\ DOMAIN snaps[s] = {2}
          /\ RocksDbSnapshot_for_each(snaps[s], p)
               = [visited |-> <<<<2, snaps[s][2]>>>>, ret |-> Ok(TRUE)]

\* the block identifiers asked about: masterchain and shard blocks
McBlockIds == {BlockIdExt(TRUE, n) : n \in 0..MaxSeqNo}
ShardBlockIds == {BlockIdExt(FALSE, n) : n \in 0..MaxSeqNo}

\* C13: get_mc_seq_no of a masterchain block is the seq_no of its identifier
\* whatever the metadata holds; of a shard block it is the masterchain reference
\* of the metadata: 0 until that field is set, the value set from then on; with
\* no block handle get_mc_seq_no_opt is 0.
C13_McSeqNo ==
    /\ \A id \in McBlockIds : get_mc_seq_no(id, block_meta) = id.seq_no
    /\ \A id \in McBlockIds \cup ShardBlockIds :
           get_mc_seq_no_opt(<<id, block_meta>>) = get_mc_seq_no(id, block_meta)
    /\ get_mc_seq_no_opt(<<>>) = 0
    /\ \A id \in ShardBlockIds :
          /\ last.op = "with_path" => get_mc_seq_no(id, block_meta) = 0
          /\ last.op = "set_masterchain_ref_seq_no" =>
                /\ get_mc_seq_no(id, last.pre.block_meta) = 0
                /\ get_mc_seq_no(id, block_meta) = last.args[1]
          /\ last.op = "set_flags" =>
                get_mc_seq_no(id, block_meta) = get_mc_seq_no(id, last.pre.block_meta)

\* the reference was set to 2 and a flag was set after it: a shard block with
\* seq_no 1 resolves to 2, the masterchain block with seq_no 1 to 1
C13_Witness ==
    /\ last.op = "set_flags"
    /\ block_meta.masterchain_ref_seq_no = 2
    /\ get_mc_seq_no(BlockIdExt(FALSE, 1), block_meta) = 2
    /\ get_mc_seq_no(BlockIdExt(TRUE, 1), block_meta) = 1
    /\ get_mc_seq_no_opt(<<BlockIdExt(FALSE, 1), block_meta>>) = 2

\* C14: a direct put(k, v) that returns Ok makes get(k) return v and
\* contains(k) true at once, a direct delete(k) that returns Ok makes get(k)
\* fail with KeyNotFound and contains(k) false, both leave the other keys as
\* they were, and on a store that stays open what get(k) and contains(k) return
\* changes only at a write to k: a successful put or delete of k or a
\* successful commit of a batch that names k.
C14_DirectWrites ==
    /\ (last.op = "put" /\ last.res.tag = "Ok") =>
          /\ RocksDb_get(Self, last.args[1]) = Ok(last.args[2])
          /\ RocksDb_contains(Self, last.args[1]) = Ok(TRUE)
    /\ (last.op = "delete" /\ last.res.tag = "Ok") =>
          /\ RocksDb_get(Self, last.args[1]) = KeyNotFound(last.args[1])
          /\ RocksDb_contains(Self, last.args[1]) = Ok(FALSE)
    /\ (last.pre.db.some /\ db.some) =>
          \A k \in Keys :
              (\/ RocksDb_get(Self, k) # RocksDb_get(last.pre, k)
               \/ RocksDb_contains(Self, k) # RocksDb_contains(last.pre, k))
              => /\ last.res.tag = "Ok"
                 /\ \/ last.op \in {"put", "delete"} /\ last.args[1] = k
                    \/ last.op = "commit" /\ Touches(CommittedBatch, k) # {}

\* a put replaced the value of a key while a transaction holds a staged delete
\* of that key, and the other key kept its value
C14_Witness ==
    /\ last.op = "put"
    /\ last.res.tag = "Ok"
    /\ DOMAIN last.pre.disk = Keys
    /\ last.pre.disk[last.args[1]] # last.args[2]
    /\ RocksDb_get(Self, last.args[1]) = Ok(last.args[2])
    /\ \E t \in DOMAIN txs : txs[t].batch = <<BatchDelete(last.args[1])>>
    /\ \A k \in Keys \ {last.args[1]} : RocksDb_get(Self, k) = Ok(last.pre.disk[k])

\* how many times an operation occurs in a batch
Occurrences(batch, operation) ==
    Cardinality({i \in 1..Len(batch) : batch[i] = operation})

\* the operations of the staging calls that returned, in the order they returned
StagedByThreads == [i \in 1..Len(threads.staged) |-> threads.staged[i].operation]

\* C15: with several threads staging into one transaction handle, in every
\* interleaving the batch holds each operation of a call that returned, as
\* often as it was staged and whole, len() is the number of those calls, and a
\* successful commit applies all of them.
C15_ConcurrentStaging ==
    /\ 1 \in DOMAIN txs =>
          /\ RocksDbTransaction_len(txs[1]) = Len(threads.staged)
          /\ RocksDbTransaction_is_empty(txs[1]) <=> threads.staged = <<>>
          /\ \A operation \in StagedOperations :
                 Occurrences(txs[1].batch, operation)
                   = Occurrences(StagedByThreads, operation)
          /\ \A i \in 1..Len(txs[1].batch) : txs[1].batch[i] \in StagedOperations
    /\ (last.op = "commit" /\ last.res.tag = "Ok") =>
          /\ Len(CommittedBatch) = Len(threads.staged)
          /\ \A operation \in StagedOperations :
                 Occurrences(CommittedBatch, operation)
                   = Occurrences(StagedByThreads, operation)
          /\ disk = WriteBatch(last.pre.disk, StagedByThreads)

\* two threads staged a put each, for different keys, and the commit applied both
C15_Witness ==
    /\ last.op = "commit"
    /\ last.res.tag = "Ok"
    /\ Len(threads.staged) = 2
    /\ threads.staged[1].thread # threads.staged[2].thread
    /\ threads.staged[1].operation.op = "put"
    /\ threads.staged[2].operation.op = "put"
    /\ threads.staged[1].operation.key # threads.staged[2].operation.key
    /\ DOMAIN disk = Keys

\* a thread waits for the Mutex another thread holds inside its call
C15_WitnessContention ==
    /\ 1 \in DOMAIN txs
    /\ threads.mutex = 1
    /\ threads.pc[1] = "write"
    /\ threads.pc[2] = "lock"

\* C16: put_cell returns the error of the transaction's put when that put
\* fails, and returns Ok only when the encoded cell has been added to the
\* transaction's batch.
C16_PutCellPassesErrors ==
    last.op = "put_cell" =>
        /\ (serialize_cell(last.args[3]).tag = "Ok" /\ last.args[4].tag # "Ok")
              => last.res = last.args[4]
        /\ last.res.tag = "Ok" =>
              txs[last.args[1]].batch
                = Append(last.pre.txs[last.args[1]].batch,
                         BatchPut(last.args[2], serialize_cell(last.args[3]).val))

\* what the code keeps of C16: an encoding failure is returned, and when the
\* put succeeds put_cell returns Ok with the encoded cell added to the batch
C16_OkWhenPutSucceeds ==
    last.op = "put_cell" =>
        /\ serialize_cell(last.args[3]).tag # "Ok"
              => last.res = serialize_cell(last.args[3]) /\ txs = last.pre.txs
        /\ (serialize_cell(last.args[3]).tag = "Ok" /\ last.args[4].tag = "Ok") =>
              /\ last.res = Ok(Unit)
              /\ txs[last.args[1]].batch
                   = Append(last.pre.txs[last.args[1]].batch,
                            BatchPut(last.args[2], serialize_cell(last.args[3]).val))

\* C17: get_cell never ends in a failed assertion, whatever bytes are stored
\* under the key, the empty value included: it returns a cell or an error.
C17_GetCellNeverPanics ==
    \A k \in Keys : CellDb_get_cell(Self, k) # Panic

\* what the code keeps of C17: get_cell of a key whose stored value is not
\* empty, or that is absent, returns a cell or an error
C17_NoPanicOnNonEmpty ==
    \A k \in Keys :
        (k \in DOMAIN disk => disk[k] # <<>>) => CellDb_get_cell(Self, k) # Panic

\* the contents after the operations i.. of a batch, one after the other
RECURSIVE Replay(_, _, _)
Replay(view, batch, i) ==
    IF i > Len(batch) THEN view
    ELSE Replay([k \in (IF batch[i].op = "put" THEN DOMAIN view \cup {batch[i].key}
                        ELSE DOMAIN view \ {batch[i].key})
                   |-> IF k = batch[i].key THEN batch[i].value ELSE view[k]],
                batch, i + 1)

\* the handles other than t are as the last call found them
OtherHandlesKept(t) ==
    \A u \in (DOMAIN txs \cup DOMAIN last.pre.txs) \ {t} :
        u \in DOMAIN txs /\ u \in DOMAIN last.pre.txs /\ txs[u] = last.pre.txs[u]

\* C18: a new handle has nothing pending; a staged put or delete is added after
\* the operations pending, clear() leaves nothing pending, len() and is_empty()
\* report the operations pending, and no call touches the batch of another
\* handle; a successful commit leaves the store as the operations pending
\* (those staged since the last clear), applied one after the other in staging
\* order, leave it: the later one wins on a key, other keys are unchanged.
C18_CommitAppliesPending ==
    /\ last.op = "begin_transaction" =>
          /\ RocksDbTransaction_len(txs[last.args[1]]) = 0
          /\ RocksDbTransaction_is_empty(txs[last.args[1]])
          /\ OtherHandlesKept(last.args[1])
    /\ last.op = "transaction.put" =>
          /\ txs[last.args[1]].batch
               = Append(last.pre.txs[last.args[1]].batch,
                        BatchPut(last.args[2], last.args[3]))
          /\ RocksDbTransaction_len(txs[last.args[1]])
               = RocksDbTransaction_len(last.pre.txs[last.args[1]]) + 1
          /\ ~RocksDbTransaction_is_empty(txs[last.args[1]])
          /\ OtherHandlesKept(last.args[1])
    /\ last.op = "transaction.delete" =>
          /\ txs[last.args[1]].batch
               = Append(last.pre.txs[last.args[1]].batch, BatchDelete(last.args[2]))
          /\ RocksDbTransaction_len(txs[last.args[1]])
               = RocksDbTransaction_len(last.pre.txs[last.args[1]]) + 1
          /\ OtherHandlesKept(last.args[1])
    /\ last.op = "transaction.clear" =>
          /\ RocksDbTransaction_len(txs[last.args[1]]) = 0
          /\ RocksDbTransaction_is_empty(txs[last.args[1]])
          /\ OtherHandlesKept(last.args[1])
    /\ last.op \in {"put", "delete", "destroy"} => txs = last.pre.txs
    /\ last.op = "commit" =>
          /\ last.args[1] \notin DOMAIN txs
          /\ OtherHandlesKept(last.args[1])
          /\ last.res.tag = "Ok" =>
                /\ disk = Replay(last.pre.disk, CommittedBatch, 1)
                /\ \A k \in Keys :
                      IF Touches(CommittedBatch, k) = {}
                      THEN RocksDb_get(Self, k) = RocksDb_get(last.pre, k)
                      ELSE RocksDb_get(Self, k)
                             = IF FinalOp(CommittedBatch, k).op = "put"
                               THEN Ok(FinalOp(CommittedBatch, k).value)
                               ELSE KeyNotFound(k)

\* a batch of one put was committed: its key holds the value now and the
\* other key is as it was
C18_Witness ==
    /\ last.op = "commit"
    /\ last.res.tag = "Ok"
    /\ Len(CommittedBatch) = 1
    /\ CommittedBatch[1].op = "put"
    /\ DOMAIN last.pre.disk = Keys \ {CommittedBatch[1].key}
    /\ DOMAIN disk = Keys
    /\ \A k \in Keys \ {CommittedBatch[1].key} : disk[k] = last.pre.disk[k]

\* two operations on one key were committed and the later one, a delete, won
C18_WitnessOverride ==
    /\ last.op = "commit"
    /\ last.res.tag = "Ok"
    /\ Len(CommittedBatch) = 2
    /\ CommittedBatch[1].op = "put"
    /\ CommittedBatch[2].op = "delete"
    /\ CommittedBatch[1].key = CommittedBatch[2].key
    /\ RocksDb_get(last.pre, CommittedBatch[1].key).tag = "Ok"
    /\ RocksDb_get(Self, CommittedBatch[1].key).tag = "KeyNotFound"

\* a clear emptied a batch of two operations
C18_WitnessClear ==
    /\ last.op = "transaction.clear"
    /\ RocksDbTransaction_len(last.pre.txs[last.args[1]]) = 2
    /\ RocksDbTransaction_len(txs[last.args[1]]) = 0

\* C19: a destroy() that fails with HasActiveTransactions changes nothing: the
\* collection, the stored entries, the handles and their batches are as the
\* call found them, so every read returns what it returned before and every
\* later call behaves as it would have; a store that was open is still open,
\* and the handles alive still hold the open DB, so their commit can succeed.
C19_FailedDestroyKeepsStore ==
    (last.op = "destroy" /\ last.res = HasActiveTransactions) =>
        /\ db = last.pre.db
        /\ disk = last.pre.disk
        /\ txs = last.pre.txs
        /\ snaps = last.pre.snaps
        /\ LiveReads(Self) = LiveReads(last.pre)
        /\ \A k \in Keys : CellDb_get_cell(Self, k) = CellDb_get_cell(last.pre, k)
        /\ last.pre.db.some =>
              /\ db.some
              /\ RocksDb_db(Self) = Ok(last.pre.disk)
              /\ DOMAIN txs # {}
              /\ \A t \in DOMAIN txs : txs[t].db = db /\ txs[t].db.some

\* destroy was refused on an open store that holds an entry, with a handle
\* alive that has an operation pending
C19_Witness ==
    /\ last.op = "destroy"
    /\ last.res = HasActiveTransactions
    /\ db.some
    /\ DOMAIN disk # {}
    /\ \E t \in DOMAIN txs : txs[t].batch # <<>> /\ txs[t].db.some
    /\ \E k \in Keys : RocksDb_get(Self, k).tag = "Ok"

\* C20: a handle holds the DB as begin_transaction found it, for as long as it
\* lives; while a handle begun on the open store is alive the store is not
\* destroyed (destroy returns Ok only with no such handle alive), and the
\* commit of such a handle never returns DbIsDropped.
C20_CommitNeverDropped ==
    /\ last.op = "begin_transaction" => txs[last.args[1]].db = last.pre.db
    /\ \A t \in DOMAIN txs \cap DOMAIN last.pre.txs :
           last.op # "begin_transaction" => txs[t].db = last.pre.txs[t].db
    /\ \A t \in DOMAIN txs : txs[t].db.some => (db.some /\ txs[t].db = db)
    /\ (last.op = "destroy" /\ last.res.tag = "Ok") =>
           \A t \in DOMAIN last.pre.txs : ~last.pre.txs[t].db.some
    /\ (last.op = "commit" /\ last.pre.txs[last.args[1]].db.some) =>
           /\ last.res # DbIsDropped
           /\ last.pre.db.some

\* a handle begun on the open store committed its two operations while the
\* other handle, begun on the open store too, is still alive
C20_Witness ==
    /\ last.op = "commit"
    /\ last.res.tag = "Ok"
    /\ last.pre.txs[last.args[1]].db.some
    /\ Len(CommittedBatch) = 2
    /\ disk # last.pre.disk
    /\ \E t \in DOMAIN txs : txs[t].db.some
    /\ db.some

\* the commit of a handle begun after the destroy returned DbIsDropped
C20_WitnessDropped ==
    /\ last.op = "commit"
    /\ last.res = DbIsDropped
    /\ ~last.pre.txs[last.args[1]].db.some
    /\ CommittedBatch # <<>>

====
